---- MODULE Spec2Model ----
(***************************************************************************)
(* Model of refactor_controllers.py: a regular-expression rewriter that    *)
(* turns exported async handlers whose body is one try/catch into handlers *)
(* wrapped by asyncHandler, and the command-line driver around it.         *)
(*                                                                         *)
(* Text is a sequence of tokens.  Every token stands for one fixed piece   *)
(* of text, and every literal of the pattern is one token or a sequence of *)
(* tokens, so the pattern can only match on token boundaries:              *)
(*   "EXP"      export const                (with its trailing space)      *)
(*   "getUser", "inner", "any"  words, each a run of \w characters         *)
(*   "ASYNC"     = async (                                                 *)
(*   "WRAP"      = asyncHandler(async (                                    *)
(*   "SIG"      req: RequestWithTraceContext, res: Response) => {          *)
(*   "TRACE"    const { traceId, spanId } = req;                           *)
(*   "TRY"      try {                                                      *)
(*   "RB"       }                                                          *)
(*   "CATCHE"    catch (error               (with its leading space)       *)
(*   "CATCHERR"  catch (err                 (a parameter not named error)  *)
(*   "COLON"    :                                                          *)
(*   "RPLB"     ) {                                                        *)
(*   "RP"       )                                                          *)
(*   "SEMI"     ;                                                          *)
(*   "SP" "NL" "TAB"   one space, one newline, one tab                     *)
(*   "X1"       const user = await fetchUser(req.params.id);               *)
(*   "X2"       res.json(user);                                            *)
(*   "X3"       next();                                                    *)
(*   "H"        res.status(500).json({ error: error.message });            *)
(*   "IMPORT"   import { asyncHandler } from './asyncHandler';             *)
(***************************************************************************)
EXTENDS Integers, Sequences, FiniteSets, TLC

\* re's \s restricted to the whitespace of the alphabet; str.rstrip() strips the same.
Whitespace == {"SP", "NL", "TAB"}

\* re's \w: the tokens made of word characters only.
WordToks == {"getUser", "inner", "any"}

\* line.startswith('    ') and line[4:]: the width of the stripped prefix.
IndentWidth == 4

\* The value of a position past either end of the text: no pattern item matches it.
At(doc, i) == IF i \in 1..Len(doc) THEN doc[i] ELSE "EOF"

\* \s* (greedy): the first position at or after i that holds no whitespace.  A
\* shorter run is never kept by backtracking, because every item that follows a
\* \s* in the pattern starts with a character that is not whitespace.
RECURSIVE SkipWs(_, _)
SkipWs(doc, i) ==
  IF At(doc, i) \in Whitespace THEN SkipWs(doc, i + 1) ELSE i

\* \w+ (greedy): the first position at or after i that holds no word token.
RECURSIVE SkipWord(_, _)
SkipWord(doc, i) ==
  IF At(doc, i) \in WordToks THEN SkipWord(doc, i + 1) ELSE i

\* Group 1 at s: export const \w+ = async \(req: ..., res: Response\) => \{
\* The position after it, or 0 when it does not match at s.
MatchDecl(doc, s) ==
  LET w == SkipWord(doc, s + 1)
  IN IF /\ At(doc, s) = "EXP"
        /\ w > s + 1
        /\ At(doc, w) = "ASYNC"
        /\ At(doc, w + 1) = "SIG"
     THEN w + 2 ELSE 0

\* The catch header were its parameter any name: \} catch \(\w+(?::\s*any)?\) \{
HeaderEndAnyParam(doc, j) ==
  IF At(doc, j) = "RB" /\ At(doc, j + 1) \in {"CATCHE", "CATCHERR"}
  THEN IF At(doc, j + 2) = "COLON"
       THEN LET a == SkipWs(doc, j + 3)
            IN IF At(doc, a) = "any" /\ At(doc, a + 1) = "RPLB" THEN a + 2 ELSE 0
       ELSE IF At(doc, j + 2) = "RPLB" THEN j + 3 ELSE 0
  ELSE 0

\* \} catch \(error(?::\s*any)?\) \{ at j: the position after it, or 0.
HeaderEnd(doc, j) ==
  IF At(doc, j) = "RB" /\ At(doc, j + 1) = "CATCHE"
  THEN IF At(doc, j + 2) = "COLON"
       THEN LET a == SkipWs(doc, j + 3)
            IN IF At(doc, a) = "any" /\ At(doc, a + 1) = "RPLB" THEN a + 2 ELSE 0
       ELSE IF At(doc, j + 2) = "RPLB" THEN j + 3 ELSE 0
  ELSE 0

\* \}\s*\}; at k: the position of its last character, or 0.
TailEnd(doc, k) ==
  IF At(doc, k) = "RB"
  THEN LET r == SkipWs(doc, k + 1)
       IN IF At(doc, r) = "RB" /\ At(doc, r + 1) = "SEMI" THEN r + 1 ELSE 0
  ELSE 0

\* The least and the greatest element of a non-empty set of positions.
Least(S) == CHOOSE x \in S : \A y \in S : x <= y

Greatest(S) == CHOOSE x \in S : \A y \in S : y <= x

\* .*? (lazy, DOTALL) before \}\s*\};  the end of the first tail at or after k, or 0.
FindTail(doc, k) ==
  LET S == {x \in k..Len(doc) : TailEnd(doc, x) # 0}
  IN IF S = {} THEN 0 ELSE TailEnd(doc, Least(S))

\* Whether the rest of the pattern (catch header, catch text, closing) matches at j.
RestMatches(doc, j) ==
  HeaderEnd(doc, j) # 0 /\ FindTail(doc, HeaderEnd(doc, j)) # 0

\* (.*?) (lazy, DOTALL): the first position at or after j where the rest of the
\* pattern matches, or 0.  It is the position after the captured body.
FindBodyEndLazy(doc, j) ==
  LET S == {x \in j..Len(doc) : RestMatches(doc, x)}
  IN IF S = {} THEN 0 ELSE Least(S)

\* The same capture were it greedy, (.*): the last such position.
FindBodyEndGreedy(doc, j) ==
  LET S == {x \in j..Len(doc) : RestMatches(doc, x)}
  IN IF S = {} THEN 0 ELSE Greatest(S)

FindBodyEnd(doc, j) == FindBodyEndLazy(doc, j)

NoMatch == [start |-> 0]

\* The pattern tried at position s (re's match at one start offset).  The record
\* of a match holds the spans of the three groups, first and last position each
\* (an empty group has last = first - 1), and the span of the whole match.
MatchAt(doc, s) ==
  LET d == MatchDecl(doc, s)
      a == SkipWs(doc, d)
      hasTrace == At(doc, a) = "TRACE"
      t == IF hasTrace THEN SkipWs(doc, a + 1) ELSE a
      j == FindBodyEnd(doc, t + 1)
  IN IF d = 0 \/ At(doc, t) # "TRY" \/ j = 0 THEN NoMatch
     ELSE [start |-> s,
           end   |-> FindTail(doc, HeaderEnd(doc, j)),
           g1    |-> <<s, d - 1>>,
           g2    |-> IF hasTrace THEN <<a, t - 1>> ELSE <<a, a - 1>>,
           g3    |-> <<t + 1, j - 1>>]

Group(doc, span) == SubSeq(doc, span[1], span[2])

(***************************************************************************)
(* replace_func                                                            *)
(***************************************************************************)

\* body.split('\n'): the lines of text, one more than it has newlines; line k
\* runs from after the newline before it to before the k-th newline.
SplitLines(text) ==
  LET nls == {i \in 1..Len(text) : text[i] = "NL"}
      n == Cardinality(nls)
      Nth(k) == CHOOSE p \in nls : Cardinality({q \in nls : q < p}) = k - 1
  IN [k \in 1..(n + 1) |->
        SubSeq(text, IF k = 1 THEN 1 ELSE Nth(k - 1) + 1,
                     IF k = n + 1 THEN Len(text) ELSE Nth(k) - 1)]

\* '\n'.join(lines)
RECURSIVE JoinLines(_)
JoinLines(lines) ==
  IF Len(lines) = 0 THEN <<>>
  ELSE IF Len(lines) = 1 THEN lines[1]
  ELSE lines[1] \o <<"NL">> \o JoinLines(Tail(lines))

\* line.startswith('    ')
StartsWithIndent(line) ==
  /\ Len(line) >= IndentWidth
  /\ \A i \in 1..IndentWidth : line[i] = "SP"

\* The loop body were it to strip what its comment names, 2 spaces.
CleanLineHalf(line) ==
  IF Len(line) >= 2 /\ line[1] = "SP" /\ line[2] = "SP"
  THEN SubSeq(line, 3, Len(line)) ELSE line

\* The loop body of replace_func: line[4:] if line.startswith('    ') else line.
CleanLine(line) ==
  IF StartsWithIndent(line) THEN SubSeq(line, IndentWidth + 1, Len(line)) ELSE line

\* str.rstrip(): text without its trailing whitespace.
RECURSIVE RStrip(_)
RStrip(text) ==
  IF Len(text) > 0 /\ text[Len(text)] \in Whitespace
  THEN RStrip(SubSeq(text, 1, Len(text) - 1)) ELSE text

\* body after the de-indenting loop and the join.
CleanBody(body) ==
  LET lines == SplitLines(body)
  IN JoinLines([i \in 1..Len(lines) |-> CleanLine(lines[i])])

\* func_decl.replace(' = async (', ' = asyncHandler(async ('): every occurrence.
WrapDecl(decl) ==
  [i \in 1..Len(decl) |-> IF decl[i] = "ASYNC" THEN "WRAP" ELSE decl[i]]

\* '\n});'
Closing == <<"NL", "RB", "RP", "SEMI">>

\* replace_func(match): the replacement text of one match.
replace_func(doc, m) ==
  WrapDecl(Group(doc, m.g1)) \o <<"NL">> \o Group(doc, m.g2)
    \o RStrip(CleanBody(Group(doc, m.g3))) \o Closing

(***************************************************************************)
(* re.sub(pattern, replace_func, content, flags=re.DOTALL)                 *)
(***************************************************************************)

\* The leftmost match that starts at or after pos (re's search), or NoMatch.
SearchFrom(doc, pos) ==
  LET S == {s \in pos..Len(doc) : MatchAt(doc, s) # NoMatch}
  IN IF S = {} THEN NoMatch ELSE MatchAt(doc, Least(S))

\* A scan that resumed one position after a match's start would find matches
\* inside matches.
ResumeOverlapping(m) == m.start + 1

\* Where the scan resumes after a match: at its end (the pattern matches no
\* empty text).
Resume(m) == m.end + 1

\* The matches of one pass, in the order re.sub hands them to replace_func.
RECURSIVE FindAllFrom(_, _)
FindAllFrom(doc, pos) ==
  LET m == SearchFrom(doc, pos)
  IN IF m = NoMatch THEN <<>> ELSE <<m>> \o FindAllFrom(doc, Resume(m))

FindAll(doc) == FindAllFrom(doc, 1)

\* The result of re.sub: the text between the matches copied, each match
\* replaced by what replace_func returns for it.
RECURSIVE Stitch(_, _, _, _)
Stitch(doc, ms, i, pos) ==
  IF i > Len(ms) THEN SubSeq(doc, pos, Len(doc))
  ELSE SubSeq(doc, pos, ms[i].start - 1) \o replace_func(doc, ms[i])
         \o Stitch(doc, ms, i + 1, ms[i].end + 1)

refactor_controller(content) == Stitch(content, FindAll(content), 1, 1)

(***************************************************************************)
(* The documents the tool is run on                                        *)
(***************************************************************************)

\* The most segments (handlers, unrelated lines) a document holds.
MaxSegments == 2

\* The most leading spaces of a body line.
MaxIndent == 5

Spaces(n) == [i \in 1..n |-> "SP"]

Line(n, stmt) == Spaces(n) \o <<stmt, "NL">>

RECURSIVE Flatten(_)
Flatten(segs) ==
  IF Len(segs) = 0 THEN <<>> ELSE segs[1] \o Flatten(Tail(segs))

\* A complete handler in the layout of the tool's input files, the catch
\* parameter written `error`.
PlainHandler(name) ==
  <<"EXP", name, "ASYNC", "SIG", "NL">> \o Line(2, "TRY") \o Line(4, "X1")
    \o <<"SP", "SP", "RB", "CATCHE", "RPLB", "NL">> \o Line(4, "H")
    \o Line(2, "RB") \o <<"RB", "SEMI", "NL">>

\* The lines between `try {` and the catch line.
BodyText(b) ==
  CASE b = "scenario" -> Line(4, "X1") \o Line(4, "X2")
    [] b = "ladder"   ->
         Flatten([k \in 1..(MaxIndent + 1) |-> Line(k - 1, "X1")])
           \o <<"TAB", "X2", "NL", "SP", "TAB", "X3", "NL">>
    [] b = "trailing" -> Line(4, "X1") \o Spaces(4) \o <<"X2", "SP", "TAB", "NL", "NL">>
    [] b = "empty"    -> <<>>
    [] b = "nested"   ->
         Line(4, "X1") \o Line(4, "TRY") \o Line(6, "X2")
           \o Spaces(4) \o <<"RB", "CATCHE", "RPLB", "NL">> \o Line(6, "H")
           \o Line(4, "RB") \o Line(4, "X3")
    [] b = "decl"     ->
         Spaces(4) \o <<"EXP", "inner", "ASYNC", "SIG", "NL">> \o Line(4, "TRY")
           \o Line(6, "X1")
    [] b = "wrap"     -> PlainHandler("inner")

CatchHeader(c) ==
  CASE c = "error" -> <<"CATCHE", "RPLB">>
    [] c = "any"   -> <<"CATCHE", "COLON", "SP", "any", "RPLB">>
    [] c = "err"   -> <<"CATCHERR", "RPLB">>

\* One handler: declaration line, optional trace line, try line, body, catch
\* block, closing.
HandlerText(h) ==
  <<"EXP", "getUser", "ASYNC", "SIG", "NL">>
    \o (IF h.trace THEN Line(2, "TRACE") ELSE <<>>)
    \o Line(2, "TRY")
    \o BodyText(h.body)
    \o <<"SP", "SP", "RB">> \o CatchHeader(h.catch) \o <<"NL">>
    \o Line(4, "H")
    \o Line(2, "RB")
    \o (IF h.semi THEN <<"RB", "SEMI", "NL">> ELSE <<"RB", "NL">>)

\* A handler written on one line with no whitespace between its parts.
CompactHandler ==
  <<"EXP", "getUser", "ASYNC", "SIG", "TRY", "X1", "RB", "CATCHE", "RPLB", "H",
    "RB", "RB", "SEMI">>

\* Text that is no handler.
Filler == <<"IMPORT", "NL">>

\* The handlers with the scenario's body: with and without the trace line, the
\* three catch headers, and one without the final `;`.
ShapeHandlers ==
  {[trace |-> t, body |-> "scenario", catch |-> c, semi |-> TRUE] :
     t \in BOOLEAN, c \in {"error", "any", "err"}}
    \cup {[trace |-> FALSE, body |-> "scenario", catch |-> "error", semi |-> FALSE]}

\* Handlers that differ from the scenario's in their body: lines of 0 to
\* MaxIndent leading spaces and of tabs, trailing whitespace, no line at all, a
\* nested try/catch, a declaration, a whole handler.
BodyHandlers ==
  {[trace |-> TRUE, body |-> b, catch |-> "any", semi |-> TRUE] :
     b \in {"ladder", "trailing", "empty", "nested", "decl", "wrap"}}

Segments ==
  {HandlerText(h) : h \in ShapeHandlers \cup BodyHandlers}
    \cup {CompactHandler, Filler}

Docs == {Flatten(f) : f \in UNION {[1..k -> Segments] : k \in 0..MaxSegments}}

\* The scenario's input document.
ScenarioDoc ==
  HandlerText([trace |-> TRUE, body |-> "scenario", catch |-> "any", semi |-> TRUE])

(***************************************************************************)
(* The command-line driver                                                 *)
(***************************************************************************)

\* sys.argv[1:]: no argument, an empty argument, a path.
Argvs == {<<>>, <<"">>, <<"controller.ts">>}

None == "None"

VARIABLES
  argv,        \* sys.argv[1:]
  fs,          \* the text of the file at the path
  pc,          \* the driver's position
  file_path,   \* file_path
  content,     \* content
  refactored,  \* refactored
  matches,     \* the matches re.sub handed to replace_func, in order
  stdout,      \* the lines printed
  status,      \* the exit status, -1 while running
  log          \* the file operations attempted, in order

vars == <<argv, fs, pc, file_path, content, refactored, matches, stdout, status, log>>

Init ==
  /\ argv \in Argvs
  /\ fs \in Docs
  /\ pc = "start"
  /\ file_path = None
  /\ content = <<>>
  /\ refactored = <<>>
  /\ matches = <<>>
  /\ stdout = <<>>
  /\ status = -1
  /\ log = <<>>

\* Python's truth value of file_path.
Truthy(p) == p # None /\ p # ""

\* An uncaught exception ends the process with status 1.
Crash(event) ==
  /\ pc' = "crashed"
  /\ status' = 1
  /\ log' = Append(log, event)

\* The argument check were sys.exit(1) missing after the usage message.
CheckArgsNoExit ==
  /\ pc = "start"
  /\ file_path' = IF Len(argv) > 0 THEN argv[1] ELSE None
  /\ stdout' = IF Truthy(file_path') THEN stdout ELSE Append(stdout, <<"usage">>)
  /\ pc' = "open_r"
  /\ UNCHANGED <<argv, fs, content, refactored, matches, status, log>>

\* file_path = sys.argv[1] if len(sys.argv) > 1 else None, and the usage exit.
CheckArgs ==
  /\ pc = "start"
  /\ file_path' = IF Len(argv) > 0 THEN argv[1] ELSE None
  /\ IF Truthy(file_path')
     THEN pc' = "open_r" /\ UNCHANGED <<stdout, status>>
     ELSE /\ stdout' = Append(stdout, <<"usage">>)
          /\ status' = 1
          /\ pc' = "exited"
  /\ UNCHANGED <<argv, fs, content, refactored, matches, log>>

\* open(file_path, 'r', encoding='utf-8') succeeds.
OpenReadOk ==
  /\ pc = "open_r"
  /\ Truthy(file_path)
  /\ pc' = "read"
  /\ log' = Append(log, "open_r")
  /\ UNCHANGED <<argv, fs, file_path, content, refactored, matches, stdout, status>>

\* open(file_path, 'r', ...) raises (missing path, permissions, no path at all).
OpenReadFail ==
  /\ pc = "open_r"
  /\ Crash("open_r_failed")
  /\ UNCHANGED <<argv, fs, file_path, content, refactored, matches, stdout>>

\* content = f.read()
ReadOk ==
  /\ pc = "read"
  /\ content' = fs
  /\ pc' = "transform"
  /\ log' = Append(log, "read")
  /\ UNCHANGED <<argv, fs, file_path, refactored, matches, stdout, status>>

\* f.read() raises (a disk error, text that is not UTF-8).
ReadFail ==
  /\ pc = "read"
  /\ Crash("read_failed")
  /\ UNCHANGED <<argv, fs, file_path, content, refactored, matches, stdout>>

\* refactored = refactor_controller(content)
Transform ==
  /\ pc = "transform"
  /\ matches' = FindAll(content)
  /\ refactored' = Stitch(content, matches', 1, 1)
  /\ pc' = "open_w"
  /\ log' = Append(log, "transform")
  /\ UNCHANGED <<argv, fs, file_path, content, stdout, status>>

\* open(file_path, 'w', encoding='utf-8') succeeds: the file is truncated.
OpenWriteOk ==
  /\ pc = "open_w"
  /\ fs' = <<>>
  /\ pc' = "write"
  /\ log' = Append(log, "open_w")
  /\ UNCHANGED <<argv, file_path, content, refactored, matches, stdout, status>>

\* open(file_path, 'w', ...) raises: the file is as it was.
OpenWriteFail ==
  /\ pc = "open_w"
  /\ Crash("open_w_failed")
  /\ UNCHANGED <<argv, fs, file_path, content, refactored, matches, stdout>>

\* The write were it to write the text read, f.write(content).
WriteOkUnchanged ==
  /\ pc = "write"
  /\ fs' = content
  /\ pc' = "print"
  /\ log' = Append(log, "write")
  /\ UNCHANGED <<argv, file_path, content, refactored, matches, stdout, status>>

\* f.write(refactored), and the file is closed.
WriteOk ==
  /\ pc = "write"
  /\ fs' = refactored
  /\ pc' = "print"
  /\ log' = Append(log, "write")
  /\ UNCHANGED <<argv, file_path, content, refactored, matches, stdout, status>>

\* f.write raises (a disk error): a part of the text, or none, has been written.
WriteFail ==
  /\ pc = "write"
  /\ \E n \in {0, Len(refactored) \div 2} : fs' = SubSeq(refactored, 1, n)
  /\ Crash("write_failed")
  /\ UNCHANGED <<argv, file_path, content, refactored, matches, stdout>>

\* print(f"Refactored {file_path}"), and the script ends.
Confirm ==
  /\ pc = "print"
  /\ stdout' = Append(stdout, <<"Refactored", file_path>>)
  /\ status' = 0
  /\ pc' = "done"
  /\ UNCHANGED <<argv, fs, file_path, content, refactored, matches, log>>

Next ==
  \/ CheckArgs
  \/ OpenReadOk
  \/ OpenReadFail
  \/ ReadOk
  \/ ReadFail
  \/ Transform
  \/ OpenWriteOk
  \/ OpenWriteFail
  \/ WriteOk
  \/ WriteFail
  \/ Confirm

Spec == Init /\ [][Next]_vars

(***************************************************************************)
(* Vocabulary of the properties                                            *)
(***************************************************************************)

\* The state right after refactored = refactor_controller(content).
Transformed == pc = "open_w"

Positions(doc, tok) == {i \in 1..Len(doc) : doc[i] = tok}

AllWs(doc, a, b) == \A i \in a..b : doc[i] \in Whitespace

\* The pattern as a language: doc[s..e] is a text the pattern describes.  Stated
\* by the places of its parts, with no search order and no laziness.
ShapeAt(doc, s, e) ==
  \E a \in Positions(doc, "ASYNC") :
    /\ a > s + 1
    /\ \A i \in (s + 1)..(a - 1) : doc[i] \in WordToks
    /\ At(doc, a + 1) = "SIG"
    /\ \E t \in Positions(doc, "TRY") :
         /\ t > a + 1
         /\ \/ AllWs(doc, a + 2, t - 1)
            \/ \E x \in (a + 2)..(t - 1) :
                 doc[x] = "TRACE" /\ AllWs(doc, a + 2, x - 1) /\ AllWs(doc, x + 1, t - 1)
         /\ \E c \in Positions(doc, "CATCHE") :
              /\ c > t + 1
              /\ doc[c - 1] = "RB"
              /\ \E p \in Positions(doc, "RPLB") :
                   /\ p > c
                   /\ \/ p = c + 1
                      \/ /\ p >= c + 3
                         /\ doc[c + 1] = "COLON"
                         /\ doc[p - 1] = "any"
                         /\ AllWs(doc, c + 2, p - 2)
                   /\ e > p + 2
                   /\ doc[e] = "SEMI"
                   /\ doc[e - 1] = "RB"
                   /\ \E k \in (p + 1)..(e - 2) : doc[k] = "RB" /\ AllWs(doc, k + 1, e - 2)

HasTargetShape(doc) ==
  \E s \in Positions(doc, "EXP") : \E e \in Positions(doc, "SEMI") : ShapeAt(doc, s, e)

\* Braces: what a token adds to the nesting depth.
Delta(tok) ==
  IF tok \in {"SIG", "TRY", "RPLB"} THEN 1 ELSE IF tok = "RB" THEN -1 ELSE 0

\* The braces opened less the braces closed in text[a..b].
DepthOver(text, a, b) ==
  Cardinality({i \in a..b : Delta(text[i]) = 1})
    - Cardinality({i \in a..b : Delta(text[i]) = -1})

BraceDepth(text) == DepthOver(text, 1, Len(text))

\* The position of the `}` that closes the brace the token at `open` opens, 0 if
\* none: the first `}` after it at which the depth is back to what it was.
MatchingClose(doc, open) ==
  LET S == {i \in (open + 1)..Len(doc) :
              doc[i] = "RB" /\ DepthOver(doc, open + 1, i) = -1}
  IN IF S = {} THEN 0 ELSE Least(S)

\* The number of spaces a line starts with.
RECURSIVE LeadingSpacesFrom(_, _)
LeadingSpacesFrom(line, i) ==
  IF i <= Len(line) /\ line[i] = "SP" THEN 1 + LeadingSpacesFrom(line, i + 1) ELSE 0

LeadingSpaces(line) == LeadingSpacesFrom(line, 1)

IsBlank(line) == \A i \in 1..Len(line) : line[i] \in Whitespace

\* Where match i's replacement starts in the output, going by the lengths of the
\* replacements before it.
RECURSIVE Shift(_, _, _)
Shift(doc, ms, i) ==
  IF i = 0 THEN 0
  ELSE Shift(doc, ms, i - 1)
         + Len(replace_func(doc, ms[i])) - (ms[i].end - ms[i].start + 1)

\* The replacement of match i, read off the output text.
Replacement(i) ==
  SubSeq(refactored, matches[i].start + Shift(content, matches, i - 1),
         matches[i].end + Shift(content, matches, i))

\* The part of match i's replacement between the trace group and the closing.
OutBody(i) ==
  LET m == matches[i]
      r == Replacement(i)
  IN SubSeq(r, (m.g1[2] - m.g1[1] + 1) + 2 + (m.g2[2] - m.g2[1] + 1), Len(r) - Len(Closing))

\* The last line of lines that holds something other than whitespace, 0 if none.
LastInk(lines) ==
  LET S == {i \in 1..Len(lines) : ~IsBlank(lines[i])}
  IN IF S = {} THEN 0 ELSE CHOOSE i \in S : \A j \in S : j <= i

(***************************************************************************)
(* Properties                                                              *)
(***************************************************************************)

\* The lines the scenario expects, and the empty line after the file's last newline.
ScenarioExpectedLines ==
  << <<"EXP", "getUser", "WRAP", "SIG">>, <<"TRACE">>, <<"X1">>, <<"X2">>,
     <<"RB", "RP", "SEMI">>, <<>> >>

\* C1: the scenario's document is rewritten to exactly the rewritten
\* declaration, the trace statement, the two body lines without indentation and
\* `});`, with no blank or whitespace-only line between them.
C1_ScenarioOutput ==
  (Transformed /\ content = ScenarioDoc) =>
    SplitLines(refactored) = ScenarioExpectedLines

\* A match whose try block, delimited by brace depth, holds statements and a
\* nested try with a catch (error), and is itself followed by the catch header.
HasNestedTry(doc, m) ==
  LET t == m.g3[1] - 1
      c == MatchingClose(doc, t)
  IN /\ c # 0
     /\ HeaderEnd(doc, c) # 0
     /\ \A q \in (t + 1)..(c - 1) : doc[q] # "EXP"
     /\ \E q \in (t + 1)..(c - 1) :
          /\ doc[q] = "TRY"
          /\ MatchingClose(doc, q) # 0
          /\ HeaderEnd(doc, MatchingClose(doc, q)) # 0

\* C2: for a handler whose try body holds a nested try/catch (error), the captured
\* body ends at the `}` that matches the outer `try {` by brace depth, so that all
\* statements of the outer try block are in the rewritten body, and the rewritten
\* handler has balanced braces.
C2_BodyEndsAtMatchingClose ==
  Transformed =>
    \A i \in 1..Len(matches) :
      HasNestedTry(content, matches[i]) =>
        /\ matches[i].g3[2] + 1 = MatchingClose(content, matches[i].g3[1] - 1)
        /\ BraceDepth(Replacement(i)) = 0

\* C3: the match spans lie inside the document, in increasing order and disjoint;
\* every position outside them holds the same token in the output, moved only by
\* the lengths of the replacements before it; every span holds its replacement.
C3_SpansDisjointOutsideVerbatim ==
  Transformed =>
    LET n == Len(matches)
        sh == [i \in 0..n |-> Shift(content, matches, i)]
        Before(p) == Cardinality({i \in 1..n : matches[i].end < p})
    IN /\ \A i \in 1..n :
            /\ 1 <= matches[i].start
            /\ matches[i].start <= matches[i].end
            /\ matches[i].end <= Len(content)
       /\ \A i \in 1..(n - 1) : matches[i].end < matches[i + 1].start
       /\ Len(refactored) = Len(content) + sh[n]
       /\ \A p \in 1..Len(content) :
            (\A i \in 1..n : p < matches[i].start \/ p > matches[i].end) =>
              At(refactored, p + sh[Before(p)]) = content[p]
       /\ \A i \in 1..n : Replacement(i) = replace_func(content, matches[i])

\* Two handlers rewritten, with text between them that belongs to neither.
C3_Witness ==
  /\ Transformed
  /\ Len(matches) = 2
  /\ matches[1].end + 1 < matches[2].start
  /\ refactored # content

SoleHandler ==
  /\ Len(matches) = 1
  /\ AllWs(content, 1, matches[1].start - 1)
  /\ AllWs(content, matches[1].end + 1, Len(content))

\* C5: for a document that is one matching handler, the output holds no match and
\* a second pass returns it unchanged.
C5_Idempotent ==
  (Transformed /\ SoleHandler) =>
    /\ FindAll(refactored) = <<>>
    /\ refactor_controller(refactored) = refactored

\* A sole handler whose captured body holds a declaration of its own.
C5_Witness ==
  /\ Transformed
  /\ SoleHandler
  /\ Cardinality(Positions(refactored, "EXP")) = 2
  /\ refactored # content

C7_ReplacementComposition ==
  Transformed =>
    \A i \in 1..Len(matches) :
      LET m == matches[i]
          decl == Group(content, m.g1)
      IN Replacement(i) =
           <<"EXP">> \o SubSeq(decl, 2, Len(decl) - 2) \o <<"WRAP", "SIG">>
             \o <<"NL">>
             \o (IF m.g2[2] >= m.g2[1] THEN <<"TRACE">> ELSE <<>>)
             \o RStrip(CleanBody(Group(content, m.g3)))
             \o Closing

\* C8: with no path argument the tool prints the usage message and exits with
\* status 1; it attempts no file operation and prints no confirmation.
C8_NoArgUsage ==
  argv = <<>> =>
    /\ log = <<>>
    /\ pc \in {"start", "exited"}
    /\ pc = "start" => stdout = <<>> /\ status = -1
    /\ pc = "exited" => stdout = << <<"usage">> >> /\ status = 1

C8_Witness == argv = <<>> /\ pc = "exited" /\ fs # <<>>

\* The file operations of a complete run, in order, and what is logged when one fails.
Steps == <<"open_r", "read", "transform", "open_w", "write">>

Failures == <<"open_r_failed", "read_failed", "none", "open_w_failed", "write_failed">>

\* C9: the file operations happen in the order open for reading, read, transform,
\* open for writing, write, each at most once and each only after the ones before
\* it succeeded; the confirmation is printed only after the write, and what is
\* then in the file is refactor_controller of the text read.  Until the file is
\* opened for writing it holds the text it held at the start, and after a failed
\* read nothing has been read, transformed or printed.
C9_StepOrder ==
  /\ \E k \in 0..Len(Steps) :
       \/ log = SubSeq(Steps, 1, k)
       \/ k < Len(Steps) /\ log = Append(SubSeq(Steps, 1, k), Failures[k + 1])
  /\ pc = "crashed" => stdout = <<>> /\ status = 1
  /\ stdout \in {<<>>, << <<"usage">> >>, << <<"Refactored", file_path>> >>}
  /\ stdout = << <<"Refactored", file_path>> >> => log = Steps /\ pc = "done"
  /\ pc \in {"print", "done"} =>
       /\ log = Steps
       /\ fs = refactor_controller(content)
  /\ (Len(log) > 0 /\ log[Len(log)] \in {"open_r_failed", "read_failed"}) =>
       content = <<>> /\ refactored = <<>> /\ fs \in Docs
  /\ (pc \in {"transform", "open_w"} \/ (Len(log) > 0 /\ log[Len(log)] = "open_w_failed")) =>
       fs = content

\* A complete run that changed the file.
C9_Witness ==
  /\ pc = "done"
  /\ stdout = << <<"Refactored", "controller.ts">> >>
  /\ status = 0
  /\ fs # content

\* C10: a match that starts at a handler's declaration ends no later than that
\* handler's own closing `};`, found by brace depth.
C10_MatchStaysInHandler ==
  Transformed =>
    \A i \in 1..Len(matches) :
      LET c == MatchingClose(content, matches[i].g1[2])
      IN c # 0 => matches[i].end <= c + 1

====
